---- MODULE Spec2Model ----
(***************************************************************************)
(* A model of src/socket.io/user.js (NodeBB): the socket.io "user"         *)
(* namespace.  Every handler SocketUser.<name>(socket, data) is an async   *)
(* function: it runs synchronously up to its first await, and is resumed   *)
(* when the awaited external service has answered.  A call is a slot of    *)
(* `calls`; a step of a call is either its invocation (the synchronous     *)
(* prefix, which issues the first request) or one external service         *)
(* answering a pending request, followed by the handler's code up to its   *)
(* next await or its return.                                               *)
(*                                                                         *)
(* The external collaborators (user, db, events, emailer, plugins, api,    *)
(* privileges, topics, messaging, meta) are not part of the file; they are *)
(* modelled by their interface.  events.log, user.getUserField and the     *)
(* privilege queries are taken to answer without failing.                  *)
(***************************************************************************)
EXTENDS Integers, Sequences, FiniteSets, TLC

\* ------------------------------------------------------------------ bounds
\* Number of call slots: how many invocations one behaviour holds.
MaxCalls == 2

\* ------------------------------------------------------- program constants
\* sleep(2500): the cooldown of reset.send, in ms.
SleepMs == 2500
\* The clock advances in steps of half a cooldown.
TickMs == SleepMs \div 2

\* -------------------------------------------------------------- JS values
\* undefined / null where a string is expected (a missing argument or field).
Null == "undefined"
\* undefined / null where a number (a uid, a count, a flag) is expected.
NoUid == -1

\* JavaScript truthiness, `!x`, of a string, of a number and of a payload
\* object (`given` tells a payload that was passed from undefined).
FalsyStr(v) == v = Null \/ v = ""
FalsyNum(n) == n = NoUid \/ n = 0
FalsyData(d) == ~d.given

\* Error messages thrown by the handlers and by the services.
InvalidData == "[[error:invalid-data]]"
NoPrivileges == "[[error:no-privileges]]"
EmailConfirmationsDisabled == "[[error:email-confirmations-are-disabled]]"
InvalidEmail == "[[error:invalid-email]]"
RateLimited == "[[error:reset-rate-limited]]"
ResetCodeNotValid == "[[error:reset-code-not-valid]]"
\* Any other failure of an external service (storage down, hook throwing).
ServiceError == "[[error:service-unavailable]]"
\* `data.uid = socket.uid` / `data.uid` with data undefined.
TypeError == "TypeError: Cannot read properties of undefined"
SuccessText == "[[success:success]]"

\* ------------------------------------------------------------ the universe
Anonymous == 0
Users == {1, 2, 3}
\* uid 1 is an administrator, uid 2 moderates a category, uid 3 is neither.
Administrators == {1}
Moderators == {2}

\* socket: the session of a connection ({uid, ip}); uid 0 is a guest.
Socket(u) == [uid |-> u, ip |-> <<"10.0.0", u>>]
Sockets == {Socket(u) : u \in Users \cup {Anonymous}}
NoSocket == [uid |-> NoUid, ip |-> <<>>]

UsernameOf(u) == CASE u = 1 -> "admin" [] u = 2 -> "moderator" [] OTHER -> "member"
\* The registered email addresses.
KnownEmail == "known@user.tld"
UidByEmail(email) == IF email = KnownEmail THEN 1 ELSE NoUid

\* The reset codes; NoCode stands for a missing (undefined) code.
Codes == {1, 2}
NoCode == 0
OldPassword == "oldpw"
NewPassword == "newpw"

\* new Date(): the local calendar day of the run; getMonth() counts from 0.
Today == [fullYear |-> 2021, month |-> 0, date |-> 31]

CallIds == 1 .. MaxCalls

VARIABLES
    calls,      \* call slot -> the invocation's frame (see IdleCall)
    config,     \* meta.config
    resetUid,   \* the hash 'reset:uid': code -> uid
    resetLock,  \* uids whose reset issuance is locked (rate limit)
    passwords,  \* uid -> password
    eventsLog,  \* the audit log written by events.log, by writing call
    emails,     \* the emails handed to emailer.send, by sending call
    hooksFired, \* the payloads given to plugins.hooks.fire, by firing call
    notes,      \* uid -> the user's moderation notes
    consent,    \* uid -> the field gdpr_consent of 'user:<uid>'
    domain      \* what the delegated api.users / user services changed

vars == <<calls, config, resetUid, resetLock, passwords, eventsLog, emails,
          hooksFired, notes, consent, domain>>

\* The frame of a call: the handler, where it stands, its arguments and
\* locals, its outcome, and (for the properties) what it did.
IdleCall ==
    [ proc    |-> "idle",       \* the handler's name
      pc      |-> "idle",       \* the await it stands at; "done" once settled
      socket  |-> NoSocket,
      data    |-> Null,         \* the payload as it was passed
      status  |-> "none",       \* "pending", "ok" (returned), "error" (threw)
      error   |-> Null,
      value   |-> Null,         \* the returned value
      trace   |-> <<>>,         \* warnings and external-service calls, in order
      elapsed |-> 0,            \* ms since the invocation (reset.send)
      wakeAt  |-> 0,            \* when its sleep ends
      err     |-> Null,         \* `err` of the catch block
      uid     |-> NoUid,        \* `uid` / data.uid after the handler set it
      sub     |-> [lookup |-> "none", commit |-> "none", hook |-> "none"],
      committed |-> NoUid,      \* the uid whose password this call changed
      flag    |-> FALSE,        \* an intermediate answer (canEdit, isAdmin)
      noteData |-> <<>>,        \* `noteData` of setModerationNote
      results |-> <<>>,         \* `results` of getUnreadCounts
      own     |-> NoUid,        \* the caller's own consent flag when gdpr.check read
      late    |-> FALSE,        \* invoked after a reset.commit of its code returned
      droppedAt |-> "up" ]      \* where the call stood when its connection dropped

\* One entry of a call's trace.
Warn(hint) == [kind |-> "warn", name |-> hint, args |-> <<>>]
Ext(name, args) == [kind |-> "ext", name |-> name, args |-> args]
ExtCalls(c) == SelectSeq(calls[c].trace, LAMBDA e : e.kind = "ext")
Warnings(c) == SelectSeq(calls[c].trace, LAMBDA e : e.kind = "warn")

Idle(c) == calls[c].proc = "idle"
\* Slots are taken in order.
CanStart(c) == Idle(c) /\ (IF c = 1 THEN TRUE ELSE ~Idle(c - 1))

\* A frame that has just been invoked.
Invoked(name, s, d) ==
    [IdleCall EXCEPT !.proc = name, !.socket = s, !.data = d,
                     !.status = "pending"]
\* return v / throw e
Return(f, v) == [f EXCEPT !.pc = "done", !.status = "ok", !.value = v]
Throw(f, e) == [f EXCEPT !.pc = "done", !.status = "error", !.error = e]
\* The frame issues a request to an external service and awaits it at `at`.
Await(f, at, name, args) ==
    [f EXCEPT !.pc = at, !.trace = Append(@, Ext(name, args))]

Done(c) == calls[c].pc = "done"
Ok(c) == calls[c].status = "ok"
Failed(c) == calls[c].status = "error"

UnchangedStores ==
    UNCHANGED <<config, resetUid, resetLock, passwords, eventsLog, emails,
                hooksFired, notes, consent, domain>>

InitStores ==
    /\ resetLock = {}
    /\ passwords = [u \in Users |-> OldPassword]
    /\ eventsLog = [c \in CallIds |-> <<>>]
    /\ emails = [c \in CallIds |-> <<>>]
    /\ hooksFired = [c \in CallIds |-> <<>>]
    /\ notes = [u \in Users |-> <<>>]
    /\ consent = [u \in Users \cup {Anonymous} |-> IF u = 2 THEN 1 ELSE NoUid]
    /\ domain = {}

\* ---------------------------------------------------------- reset.send
\* events.log(data): one entry appended to the audit log.
EventsLog(c, entry) == eventsLog' = [eventsLog EXCEPT ![c] = Append(@, entry)]

\* logEvent(text) of reset.send (lines 75-83).
logEvent(c, text) ==
    EventsLog(c, [type |-> "password-reset", text |-> text,
                  ip |-> calls[c].socket.ip, uid |-> calls[c].socket.uid,
                  email |-> calls[c].data])

\* A variant that also refuses an address without '@'.
EmailMissingOrMalformed(email) == FalsyStr(email) \/ email = "not-an-email"

\* Line 68: `!email`.
EmailMissing(email) == FalsyStr(email)

\* A variant without the check of line 72.
ResetSendUnlessMissing(c, s, email) ==
    /\ CanStart(c)
    /\ LET f == Invoked("reset.send", s, email) IN
       calls' = [calls EXCEPT ![c] =
           IF EmailMissing(email) THEN Throw(f, InvalidData)
           ELSE Await(f, "user.reset.send", "user.reset.send", <<email>>)]
    /\ UnchangedStores

\* Lines 67-85: the checks, then the request to user.reset.send.
ResetSend(c, s, email) ==
    /\ CanStart(c)
    /\ LET f == Invoked("reset.send", s, email) IN
       calls' = [calls EXCEPT ![c] =
           IF EmailMissing(email) THEN Throw(f, InvalidData)
           ELSE IF config.passwordDisableEdit THEN Throw(f, NoPrivileges)
           ELSE Await(f, "user.reset.send", "user.reset.send", <<email>>)]
    /\ UnchangedStores

\* utils.generateUUID(): a code that was never issued.  Code 1 was issued
\* before; a uid is issued one code, its lock lasting from then on.
FreshCodes == Codes \ {1}

\* user.reset.send(email): unknown address -> invalid-email; an issuance for
\* the uid within the lock -> reset-rate-limited; else a code is persisted
\* and the lock taken.  The service may also fail otherwise.  The lock
\* outlasts the calls followed here.
\* The handler goes on to line 86 (success) or to the catch block (line 89).
UserResetSend(c) ==
    /\ calls[c].pc = "user.reset.send"
    /\ LET email == calls[c].data
           u == UidByEmail(email)
       IN \/ /\ u = NoUid
             /\ calls' = [calls EXCEPT ![c] =
                   Await([calls[c] EXCEPT !.err = InvalidEmail], "logEvent.catch",
                         "events.log", <<InvalidEmail>>)]
             /\ UNCHANGED <<resetUid, resetLock>>
          \/ /\ u /= NoUid /\ u \in resetLock
             /\ calls' = [calls EXCEPT ![c] =
                   Await([calls[c] EXCEPT !.err = RateLimited], "logEvent.catch",
                         "events.log", <<RateLimited>>)]
             /\ UNCHANGED <<resetUid, resetLock>>
          \/ /\ u /= NoUid /\ u \notin resetLock
             /\ LET code == CHOOSE k \in FreshCodes : resetUid[k] = NoUid
                IN resetUid' = [resetUid EXCEPT ![code] = u]
             /\ resetLock' = resetLock \cup {u}
             /\ calls' = [calls EXCEPT ![c] =
                   Await(@, "logEvent.try", "events.log", <<SuccessText>>)]
          \/ /\ calls' = [calls EXCEPT ![c] =
                   Await([calls[c] EXCEPT !.err = ServiceError], "logEvent.catch",
                         "events.log", <<ServiceError>>)]
             /\ UNCHANGED <<resetUid, resetLock>>
    /\ UNCHANGED <<config, passwords, eventsLog, emails, hooksFired, notes,
                   consent, domain>>

\* Line 87: how long the handler sleeps after a logged success.
SleepAfterSuccess == SleepMs

\* Lines 86-87: the success is logged, then the handler sleeps.
LogEventTry(c) ==
    /\ calls[c].pc = "logEvent.try"
    /\ logEvent(c, SuccessText)
    /\ calls' = [calls EXCEPT ![c].pc = "sleep",
                              ![c].wakeAt = calls[c].elapsed + SleepAfterSuccess]
    /\ UNCHANGED <<config, resetUid, resetLock, passwords, emails, hooksFired,
                   notes, consent, domain>>

\* The timer of line 87 fires; the handler returns.
SleepDone(c) ==
    /\ calls[c].pc = "sleep"
    /\ calls[c].elapsed >= calls[c].wakeAt
    /\ calls' = [calls EXCEPT ![c] = Return(@, Null)]
    /\ UnchangedStores

\* Variants of the list: every service failure on it, and
\* reset-rate-limited missing from it.
internalErrorsWithAny == {InvalidEmail, RateLimited, ServiceError}
internalErrorsWithoutRateLimit == {InvalidEmail}

\* Line 90: the failures that are not reported to the caller.
internalErrors == {InvalidEmail, RateLimited}

\* Lines 89-93: the failure is logged; it is thrown again unless internal.
LogEventCatch(c) ==
    /\ calls[c].pc = "logEvent.catch"
    /\ logEvent(c, calls[c].err)
    /\ calls' = [calls EXCEPT ![c] =
           IF calls[c].err \notin internalErrors
           THEN Throw(@, calls[c].err) ELSE Return(@, Null)]
    /\ UNCHANGED <<config, resetUid, resetLock, passwords, emails, hooksFired,
                   notes, consent, domain>>

\* A reset.send call in flight.
Sending(c) == calls[c].proc = "reset.send" /\ ~Done(c)
\* Time passes, for every reset.send call in flight; it is followed while
\* a call sleeps (the services answer at any moment of it).
Tick ==
    /\ \E c \in CallIds :
          calls[c].pc = "sleep" /\ calls[c].elapsed < calls[c].wakeAt
    /\ calls' = [c \in CallIds |->
                    IF Sending(c)
                    THEN [calls[c] EXCEPT !.elapsed = @ + TickMs]
                    ELSE calls[c]]
    /\ UnchangedStores

\* --------------------------------------------------------- reset.commit
\* A variant that goes on as soon as the lookup has answered.
PromiseAllAfterLookup(f, failure) ==
    IF f.pc /= "Promise.all" THEN f
    ELSE IF failure /= Null THEN Throw(f, failure)
    ELSE IF f.sub.lookup = "ok"
         THEN Await(f, "events.log", "events.log", <<f.uid, f.socket.ip>>)
    ELSE f

\* A variant that waits for the three to settle and goes on whatever their
\* outcome (Promise.allSettled).
PromiseAllSettled(f, failure) ==
    IF f.pc /= "Promise.all" THEN f
    ELSE IF f.sub.lookup /= "pending" /\ f.sub.commit /= "pending"
            /\ f.sub.hook /= "pending"
         THEN Await(f, "events.log", "events.log", <<f.uid, f.socket.ip>>)
    ELSE f

\* Promise.all over the three sub-actions (lines 101-105): the first one to
\* fail rejects the call, the others go on regardless; when all three have
\* succeeded the handler goes on to events.log (line 107).
AllSettledOk(sub) == sub.lookup = "ok" /\ sub.commit = "ok" /\ sub.hook = "ok"
PromiseAll(f, failure) ==
    IF f.pc /= "Promise.all" THEN f
    ELSE IF failure /= Null THEN Throw(f, failure)
    ELSE IF AllSettledOk(f.sub)
         THEN Await(f, "events.log", "events.log", <<f.uid, f.socket.ip>>)
    ELSE f

\* Line 98: the payload check of reset.commit.
CommitDataInvalid(data) ==
    FalsyData(data) \/ FalsyNum(data.code) \/ FalsyStr(data.password)

\* A reset.commit with this code has returned normally.
Committed(code) ==
    \E d \in CallIds : /\ calls[d].proc = "reset.commit" /\ Ok(d)
                        /\ calls[d].data.code = code

\* Lines 97-105: the check, then the three requests are issued together.
ResetCommit(c, s, data) ==
    /\ CanStart(c)
    /\ LET f == [Invoked("reset.commit", s, data) EXCEPT
                   !.late = Committed(data.code)] IN
       calls' = [calls EXCEPT ![c] =
           IF CommitDataInvalid(data) THEN Throw(f, InvalidData)
           ELSE [f EXCEPT
                   !.pc = "Promise.all",
                   !.sub = [lookup |-> "pending", commit |-> "pending",
                            hook |-> "pending"],
                   !.trace = <<Ext("db.getObjectField", <<"reset:uid", data.code>>),
                               Ext("user.reset.commit", <<data.code, data.password>>),
                               Ext("plugins.hooks.fire", <<s.uid>>)>>]]
    /\ UnchangedStores

\* Line 102: db.getObjectField('reset:uid', data.code) answers (or fails).
GetObjectFieldResetUid(c) ==
    /\ calls[c].sub.lookup = "pending"
    /\ \/ calls' = [calls EXCEPT ![c] =
             PromiseAll([calls[c] EXCEPT !.sub.lookup = "ok",
                                         !.uid = resetUid[calls[c].data.code]],
                        Null)]
       \/ calls' = [calls EXCEPT ![c] =
             PromiseAll([calls[c] EXCEPT !.sub.lookup = "failed"], ServiceError)]
    /\ UnchangedStores

\* Line 103: user.reset.commit(code, password): the code is validated, the
\* password of its uid is set and the code is deleted, or the code is refused.
UserResetCommit(c) ==
    /\ calls[c].sub.commit = "pending"
    /\ LET code == calls[c].data.code
           u == resetUid[code]
       IN IF u = NoUid
          THEN /\ calls' = [calls EXCEPT ![c] =
                     PromiseAll([calls[c] EXCEPT !.sub.commit = "failed"],
                                ResetCodeNotValid)]
               /\ UNCHANGED <<resetUid, passwords>>
          ELSE /\ passwords' = [passwords EXCEPT ![u] = calls[c].data.password]
               /\ resetUid' = [resetUid EXCEPT ![code] = NoUid]
               /\ calls' = [calls EXCEPT ![c] =
                     PromiseAll([calls[c] EXCEPT !.sub.commit = "ok",
                                                 !.committed = u], Null)]
    /\ UNCHANGED <<config, resetLock, eventsLog, emails, hooksFired, notes,
                   consent, domain>>

\* Line 104: plugins.hooks.fire('action:password.reset', {uid: socket.uid}).
HooksFire(c) ==
    /\ calls[c].sub.hook = "pending"
    /\ hooksFired' = [hooksFired EXCEPT ![c] = Append(@,
          [hook |-> "action:password.reset", uid |-> calls[c].socket.uid])]
    /\ \/ calls' = [calls EXCEPT ![c] =
             PromiseAll([calls[c] EXCEPT !.sub.hook = "ok"], Null)]
       \/ calls' = [calls EXCEPT ![c] =
             PromiseAll([calls[c] EXCEPT !.sub.hook = "failed"], ServiceError)]
    /\ UNCHANGED <<config, resetUid, resetLock, passwords, eventsLog, emails,
                   notes, consent, domain>>

\* A variant that records the session's uid, as logEvent of reset.send does.
CommitEventOfSession(f) ==
    [type |-> "password-reset", uid |-> f.socket.uid, ip |-> f.socket.ip]

\* Lines 107-111: the audit entry of reset.commit.
CommitEvent(f) == [type |-> "password-reset", uid |-> f.uid, ip |-> f.socket.ip]

\* A variant of the audit step that is given up once the connection is gone.
CommitEventsLogWhileConnected(c) ==
    /\ calls[c].proc = "reset.commit" /\ calls[c].pc = "events.log"
    /\ calls[c].droppedAt = "up"
    /\ EventsLog(c, CommitEvent(calls[c]))
    /\ calls' = [calls EXCEPT ![c] =
           Await(@, "user.getUserField", "user.getUserField",
                 <<calls[c].uid, "username">>)]
    /\ UNCHANGED <<config, resetUid, resetLock, passwords, emails, hooksFired,
                   notes, consent, domain>>

\* Lines 107-113: the audit entry is written, then the username is asked for.
CommitEventsLog(c) ==
    /\ calls[c].proc = "reset.commit" /\ calls[c].pc = "events.log"
    /\ EventsLog(c, CommitEvent(calls[c]))
    /\ calls' = [calls EXCEPT ![c] =
           Await(@, "user.getUserField", "user.getUserField",
                 <<calls[c].uid, "username">>)]
    /\ UNCHANGED <<config, resetUid, resetLock, passwords, emails, hooksFired,
                   notes, consent, domain>>

\* user.getUserField(uid, 'username').
GetUserField(u) == IF u \in Users THEN UsernameOf(u) ELSE Null

\* Line 115: year + '/' + (month + 1) + '/' + day.
ParsedDate(now) == <<now.fullYear, "/", now.month + 1, "/", now.date>>

\* Lines 113-120: the username answers, the email is handed to emailer.send
\* (not awaited) and the handler returns.
CommitNotify(c) ==
    /\ calls[c].pc = "user.getUserField"
    /\ emails' = [emails EXCEPT ![c] = Append(@,
          [template |-> "reset_notify", uid |-> calls[c].uid,
           username |-> GetUserField(calls[c].uid),
           date |-> ParsedDate(Today),
           subject |-> "[[email:reset.notify.subject]]",
           state |-> "sending"])]
    /\ calls' = [calls EXCEPT ![c] =
           Return([calls[c] EXCEPT !.trace =
                      Append(@, Ext("emailer.send", <<"reset_notify", calls[c].uid>>))],
                  Null)]
    /\ UNCHANGED <<config, resetUid, resetLock, passwords, eventsLog, hooksFired,
                   notes, consent, domain>>

\* A variant in which the handler has the send's failure thrown to its caller.
EmailerSendRejecting(c) ==
    /\ emails[c] /= <<>>
    /\ emails[c][Len(emails[c])].state = "sending"
    /\ \E outcome \in {"sent", "failed"} :
          /\ emails' = [emails EXCEPT ![c][Len(emails[c])].state = outcome]
          /\ calls' = IF outcome = "failed"
                      THEN [calls EXCEPT ![c] = Throw(@, ServiceError)]
                      ELSE calls
    /\ UNCHANGED <<config, resetUid, resetLock, passwords, eventsLog,
                   hooksFired, notes, consent, domain>>

\* emailer.send settles in the background: delivered, or failed.
EmailerSend(c) ==
    /\ emails[c] /= <<>>
    /\ emails[c][Len(emails[c])].state = "sending"
    /\ \E outcome \in {"sent", "failed"} :
          emails' = [emails EXCEPT ![c][Len(emails[c])].state = outcome]
    /\ UNCHANGED <<calls, config, resetUid, resetLock, passwords, eventsLog,
                   hooksFired, notes, consent, domain>>

\* ------------------------------------------- the password-reset system
\* Connection c makes call c; the first is a guest's, the others are
\* members' (password resets are asked for by guests and by members).
ResetSocket(c) == IF c = 1 THEN Socket(Anonymous) ELSE Socket(3)
EmailInputs == {Null, "not-an-email", KnownEmail}
NoData == [given |-> FALSE, code |-> NoCode, password |-> Null]
CommitData(code, password) ==
    [given |-> TRUE, code |-> code, password |-> password]
CommitInputs ==
    {NoData, CommitData(NoCode, NewPassword), CommitData(1, Null)} \cup
    {CommitData(k, NewPassword) : k \in Codes}

\* One reset request (code 1, of uid 2) is pending from before.
InitReset ==
    /\ calls = [c \in CallIds |-> IdleCall]
    /\ config \in {[passwordDisableEdit |-> b, requireEmailConfirmation |-> TRUE] :
                     b \in BOOLEAN}
    /\ resetUid = [k \in Codes |-> IF k = 1 THEN 2 ELSE NoUid]
    /\ InitStores

NextReset ==
    \/ \E c \in CallIds, email \in EmailInputs :
          ResetSend(c, ResetSocket(c), email)
    \/ \E c \in CallIds : UserResetSend(c)
    \/ \E c \in CallIds : LogEventTry(c)
    \/ \E c \in CallIds : SleepDone(c)
    \/ \E c \in CallIds : LogEventCatch(c)
    \/ Tick
    \/ \E c \in CallIds, data \in CommitInputs :
          ResetCommit(c, ResetSocket(c), data)
    \/ \E c \in CallIds : GetObjectFieldResetUid(c)
    \/ \E c \in CallIds : UserResetCommit(c)
    \/ \E c \in CallIds : HooksFire(c)
    \/ \E c \in CallIds : CommitEventsLog(c)
    \/ \E c \in CallIds : CommitNotify(c)
    \/ \E c \in CallIds : EmailerSend(c)

SpecReset == InitReset /\ [][NextReset]_vars

\* ------------------------------------------------ a connection dropping
\* The connection of a call in flight goes away.  No handler is told, and
\* none reads the connection's state: the frame only remembers where it was.
Disconnect(c) ==
    /\ ~Idle(c) /\ ~Done(c)
    /\ calls[c].droppedAt = "up"
    /\ calls' = [calls EXCEPT ![c].droppedAt = calls[c].pc]
    /\ UnchangedStores

\* reset.commit calls whose connections may drop.  A call is made once
\* the calls before it have settled (the races between calls are those of
\* SpecReset); the sub-actions of a settled call may still be in flight.
Quiet == \A d \in CallIds : Idle(d) \/ Done(d)
DropInputs == {NoData, CommitData(1, NewPassword)}

ResetCommitWhenQuiet(c, s, data) == Quiet /\ ResetCommit(c, s, data)

InitDrop ==
    /\ calls = [c \in CallIds |-> IdleCall]
    /\ config = [passwordDisableEdit |-> FALSE, requireEmailConfirmation |-> TRUE]
    /\ resetUid = [k \in Codes |-> IF k = 1 THEN 2 ELSE NoUid]
    /\ InitStores

NextDrop ==
    \/ \E c \in CallIds, data \in DropInputs :
          ResetCommitWhenQuiet(c, ResetSocket(c), data)
    \/ \E c \in CallIds : GetObjectFieldResetUid(c)
    \/ \E c \in CallIds : UserResetCommit(c)
    \/ \E c \in CallIds : HooksFire(c)
    \/ \E c \in CallIds : CommitEventsLog(c)
    \/ \E c \in CallIds : CommitNotify(c)
    \/ \E c \in CallIds : Disconnect(c)

\* Every external service answers each request it was given, and the
\* event loop resumes the handler then (weak fairness of the answers).
ServicesAnswer ==
    \A c \in CallIds :
        /\ WF_vars(GetObjectFieldResetUid(c))
        /\ WF_vars(UserResetCommit(c))
        /\ WF_vars(HooksFire(c))
        /\ WF_vars(CommitEventsLog(c))
        /\ WF_vars(CommitNotify(c))

SpecDrop == InitDrop /\ [][NextDrop]_vars /\ ServicesAnswer

\* ------------------------------------------------ the delegated services
\* A variant that emits nothing.
warnDeprecatedSilent(f, hint) == f

\* sockets.warnDeprecated(socket, hint): the warning is recorded.
warnDeprecated(f, hint) == [f EXCEPT !.trace = Append(@, Warn(hint))]

\* The frame calls an external service that answers before anything else
\* happens to the call: the request is recorded, the answer is handled by
\* the caller.  (A handler with a single await is one action: invocation,
\* the service's answer, return.)
Call(f, name, args) == [f EXCEPT !.trace = Append(@, Ext(name, args))]

\* api.users.*(caller, data): the REST layer's operations.  They refuse a
\* guest and act for a logged-in caller.
ApiRefuses(s) == s.uid = Anonymous
\* What a delegated operation changed, as a fact added to `domain`.
Effect(name, args) == domain' = domain \cup {<<name, args>>}

\* The answers of the read-only services, fixed for the run.
UserOrGroupExists(username) == username = "admin"
EmailExists(email) == email = KnownEmail
IsFollowing(u, v) == u = 3 /\ v = 1
\* topics.getUnreadTids({uid, count: true}): the four counts of a uid, by
\* filter; '' is the unfiltered count.
UnreadTids(u) ==
    [k \in {"", "new", "watched", "unreplied"} |->
        CASE k = "" -> 7 + u [] k = "new" -> 1 [] k = "watched" -> 2
          [] OTHER -> 4 + u]
\* topics.getTotalUnread(uid, ''), messaging.getUnreadCount(uid),
\* user.notifications.getUnreadCount(uid).
TotalUnread(u) == UnreadTids(u)[""]
UnreadChatCount(u) == 20 + u
UnreadNotificationCount(u) == 30 + u
\* privileges.users.canEdit(callerUid, uid): oneself, or as administrator.
CanEdit(u, v) == u = v \/ u \in Administrators
\* user.isModeratorOfAnyCategory(uid), user.isAdministrator(uid).
IsModeratorOfAnyCategory(u) == u \in Moderators
IsAdministrator(u) == u \in Administrators

\* ------------------------------------------------------ simple handlers
\* Lines 29-36.
Exists(c, s, data) ==
    /\ CanStart(c)
    /\ LET f == warnDeprecated(Invoked("exists", s, data),
                  "HEAD /api/v3/users/bySlug/:userslug *AND* HEAD /api/v3/groups/:slug")
       IN calls' = [calls EXCEPT ![c] =
             IF FalsyData(data) \/ FalsyStr(data.username)
             THEN Throw(f, InvalidData)
             ELSE Return(Call(f, "meta.userOrGroupExists", <<data.username>>),
                         UserOrGroupExists(data.username))]
    /\ UnchangedStores

\* A variant without the assignment of line 40: the payload's uid is kept.
DeleteAccountAsPassed(c, s, data) ==
    /\ CanStart(c)
    /\ LET f == warnDeprecated(Invoked("deleteAccount", s, data),
                               "DELETE /api/v3/users/:uid/account")
           g == Call([f EXCEPT !.uid = data.uid],
                     "api.users.deleteAccount", <<s.uid, data.uid>>)
       IN IF ApiRefuses(s) \/ ~data.given
          THEN calls' = [calls EXCEPT ![c] = Throw(g, NoPrivileges)] /\ UNCHANGED domain
          ELSE calls' = [calls EXCEPT ![c] = Return(g, Null)]
               /\ Effect("deleteAccount", <<data.uid>>)
    /\ UNCHANGED <<config, resetUid, resetLock, passwords, eventsLog, emails,
                   hooksFired, notes, consent>>

\* Lines 38-42.  `data.uid = socket.uid` throws when data is undefined.
DeleteAccount(c, s, data) ==
    /\ CanStart(c)
    /\ LET f == warnDeprecated(Invoked("deleteAccount", s, data),
                               "DELETE /api/v3/users/:uid/account")
           d == [data EXCEPT !.uid = s.uid]
           g == Call([f EXCEPT !.uid = d.uid],
                     "api.users.deleteAccount", <<s.uid, d.uid>>)
       IN IF ~data.given
          THEN calls' = [calls EXCEPT ![c] = Throw(f, TypeError)] /\ UNCHANGED domain
          ELSE IF ApiRefuses(s)
          THEN calls' = [calls EXCEPT ![c] = Throw(g, NoPrivileges)] /\ UNCHANGED domain
          ELSE calls' = [calls EXCEPT ![c] = Return(g, Null)]
               /\ Effect("deleteAccount", <<d.uid>>)
    /\ UNCHANGED <<config, resetUid, resetLock, passwords, eventsLog, emails,
                   hooksFired, notes, consent>>

\* Lines 44-49.
EmailExistsCall(c, s, data) ==
    /\ CanStart(c)
    /\ LET f == Invoked("emailExists", s, data)
       IN calls' = [calls EXCEPT ![c] =
             IF FalsyData(data) \/ FalsyStr(data.email)
             THEN Throw(f, InvalidData)
             ELSE Return(Call(f, "user.email.exists", <<data.email>>),
                         EmailExists(data.email))]
    /\ UnchangedStores

\* Lines 51-61.
EmailConfirm(c, s) ==
    /\ CanStart(c)
    /\ LET f == Invoked("emailConfirm", s, Null)
       IN IF FalsyNum(s.uid)
          THEN calls' = [calls EXCEPT ![c] = Throw(f, NoPrivileges)] /\ UNCHANGED domain
          ELSE IF ~config.requireEmailConfirmation
          THEN calls' = [calls EXCEPT ![c] = Throw(f, EmailConfirmationsDisabled)]
               /\ UNCHANGED domain
          ELSE calls' = [calls EXCEPT ![c] =
                  Return(Call(f, "user.email.sendValidationEmail", <<s.uid>>), Null)]
               /\ Effect("sendValidationEmail", <<s.uid>>)
    /\ UNCHANGED <<config, resetUid, resetLock, passwords, eventsLog, emails,
                   hooksFired, notes, consent>>

\* Lines 123-129.  `data.uid` is read only when socket.uid is truthy.
IsFollowingCall(c, s, data) ==
    /\ CanStart(c)
    /\ LET f == Invoked("isFollowing", s, data)
       IN calls' = [calls EXCEPT ![c] =
             IF FalsyNum(s.uid) THEN Return(f, FALSE)
             ELSE IF ~data.given THEN Throw(f, TypeError)
             ELSE IF FalsyNum(data.uid) THEN Return(f, FALSE)
             ELSE Return(Call(f, "user.isFollowing", <<s.uid, data.uid>>),
                         IsFollowing(s.uid, data.uid))]
    /\ UnchangedStores

\* Lines 131-145: follow, unfollow, saveSettings hand socket and data to
\* api.users.follow / unfollow / updateSettings.
DelegateNames == {"follow", "unfollow", "saveSettings"}
DelegateHint(name) ==
    CASE name = "follow" -> "POST /api/v3/users/follow"
      [] name = "unfollow" -> "DELETE /api/v3/users/unfollow"
      [] OTHER -> "PUT /api/v3/users/:uid/settings"
DelegateService(name) ==
    CASE name = "follow" -> "api.users.follow"
      [] name = "unfollow" -> "api.users.unfollow"
      [] OTHER -> "api.users.updateSettings"
Delegate(c, s, name, data) ==
    /\ CanStart(c)
    /\ name \in DelegateNames
    /\ LET f == warnDeprecated(Invoked(name, s, data), DelegateHint(name))
           g == Call(f, DelegateService(name), <<s.uid, data>>)
       IN IF ApiRefuses(s)
          THEN calls' = [calls EXCEPT ![c] = Throw(g, NoPrivileges)] /\ UNCHANGED domain
          ELSE IF ~data.given
          THEN calls' = [calls EXCEPT ![c] = Throw(g, InvalidData)] /\ UNCHANGED domain
          ELSE calls' = [calls EXCEPT ![c] =
                  Return(g, IF name = "saveSettings" THEN data ELSE Null)]
               /\ Effect(name, <<s.uid, data.uid>>)
    /\ UNCHANGED <<config, resetUid, resetLock, passwords, eventsLog, emails,
                   hooksFired, notes, consent>>

\* Lines 147-163: setTopicSort and setCategorySort build the payload
\* {uid: socket.uid, setting, value: sort} for api.users.updateSetting.
SortNames == {"setTopicSort", "setCategorySort"}
SortSetting(name) ==
    IF name = "setTopicSort" THEN "topicPostSort" ELSE "categoryTopicSort"
SortHint(name) ==
    IF name = "setTopicSort" THEN "PUT /api/v3/users/:uid/setting/topicPostSort"
    ELSE "PUT /api/v3/users/:uid/setting/categoryTopicSort"
SetSort(c, s, name, sort) ==
    /\ CanStart(c)
    /\ name \in SortNames
    /\ LET f == warnDeprecated(Invoked(name, s, sort), SortHint(name))
           g == Call([f EXCEPT !.uid = s.uid], "api.users.updateSetting",
                     <<s.uid, s.uid, SortSetting(name), sort>>)
       IN IF ApiRefuses(s)
          THEN calls' = [calls EXCEPT ![c] = Throw(g, NoPrivileges)] /\ UNCHANGED domain
          ELSE calls' = [calls EXCEPT ![c] = Return(g, Null)]
               /\ Effect("updateSetting", <<s.uid, SortSetting(name), sort>>)
    /\ UNCHANGED <<config, resetUid, resetLock, passwords, eventsLog, emails,
                   hooksFired, notes, consent>>

\* Lines 165-177: getUnreadCount and getUnreadChatCount.
CountNames == {"getUnreadCount", "getUnreadChatCount"}
GetUnread(c, s, name) ==
    /\ CanStart(c)
    /\ name \in CountNames
    /\ LET f == Invoked(name, s, Null)
       IN calls' = [calls EXCEPT ![c] =
             IF FalsyNum(s.uid) THEN Return(f, 0)
             ELSE IF name = "getUnreadCount"
             THEN Return(Call(f, "topics.getTotalUnread", <<s.uid, "">>),
                         TotalUnread(s.uid))
             ELSE Return(Call(f, "messaging.getUnreadCount", <<s.uid>>),
                         UnreadChatCount(s.uid))]
    /\ UnchangedStores

\* Lines 195-205: getUserByUID / getUserByUsername / getUserByEmail.
LookupField(name) ==
    CASE name = "getUserByUID" -> "uid"
      [] name = "getUserByUsername" -> "username"
      [] OTHER -> "email"
LookupNames == {"getUserByUID", "getUserByUsername", "getUserByEmail"}
GetUserBy(c, s, name, key) ==
    /\ CanStart(c)
    /\ name \in LookupNames
    /\ calls' = [calls EXCEPT ![c] =
          Return(Call(Invoked(name, s, key),
                      "userController.getUserDataByField",
                      <<s.uid, LookupField(name), key>>),
                 <<LookupField(name), key>>)]
    /\ UnchangedStores

\* Lines 227-232.
DeleteUpload(c, s, data) ==
    /\ CanStart(c)
    /\ LET f == Invoked("deleteUpload", s, data)
       IN IF FalsyData(data) \/ FalsyStr(data.name) \/ FalsyNum(data.uid)
          THEN calls' = [calls EXCEPT ![c] = Throw(f, InvalidData)] /\ UNCHANGED domain
          ELSE calls' = [calls EXCEPT ![c] =
                  Return(Call(f, "user.deleteUpload", <<s.uid, data.uid, data.name>>),
                         Null)]
               /\ Effect("deleteUpload", <<s.uid, data.uid, data.name>>)
    /\ UNCHANGED <<config, resetUid, resetLock, passwords, eventsLog, emails,
                   hooksFired, notes, consent>>

\* Lines 236-238.
GdprConsent(c, s) ==
    /\ CanStart(c)
    /\ calls' = [calls EXCEPT ![c] =
          Return(Call([Invoked("gdpr.consent", s, Null) EXCEPT !.uid = s.uid],
                      "user.setUserField", <<s.uid, "gdpr_consent", 1>>), Null)]
    /\ consent' = [consent EXCEPT ![s.uid] = 1]
    /\ UNCHANGED <<config, resetUid, resetLock, passwords, eventsLog, emails,
                   hooksFired, notes, domain>>

\* ------------------------------------------------------ getUnreadCounts
\* The three queries of utils.promiseParallel (lines 183-187).
UnreadQueries == {"unreadCounts", "unreadChatCount", "unreadNotificationCount"}

\* Lines 179-187: a guest gets {}; else the three queries are issued together.
GetUnreadCounts(c, s) ==
    /\ CanStart(c)
    /\ LET f == Invoked("getUnreadCounts", s, Null)
       IN calls' = [calls EXCEPT ![c] =
             IF FalsyNum(s.uid) THEN Return(f, <<>>)
             ELSE [f EXCEPT
                     !.pc = "promiseParallel",
                     !.sub = [q \in UnreadQueries |-> "pending"],
                     !.trace = <<Ext("topics.getUnreadTids", <<s.uid, TRUE>>),
                                 Ext("messaging.getUnreadCount", <<s.uid>>),
                                 Ext("user.notifications.getUnreadCount", <<s.uid>>)>>]]
    /\ UnchangedStores

\* What a query answers for a uid.
QueryAnswer(q, u) ==
    CASE q = "unreadCounts" -> UnreadTids(u)
      [] q = "unreadChatCount" -> UnreadChatCount(u)
      [] OTHER -> UnreadNotificationCount(u)

\* A variant that takes the topic count from the 'new' filter.
MergeCountsFromNew(results) ==
    [unreadCounts |-> results["unreadCounts"],
     unreadChatCount |-> results["unreadChatCount"],
     unreadNotificationCount |-> results["unreadNotificationCount"],
     unreadTopicCount |-> results["unreadCounts"]["new"],
     unreadNewTopicCount |-> results["unreadCounts"]["new"],
     unreadWatchedTopicCount |-> results["unreadCounts"]["watched"],
     unreadUnrepliedTopicCount |-> results["unreadCounts"]["unreplied"]]

\* Lines 188-192: the four topic counts are copied out of unreadCounts.
MergeCounts(results) ==
    [unreadCounts |-> results["unreadCounts"],
     unreadChatCount |-> results["unreadChatCount"],
     unreadNotificationCount |-> results["unreadNotificationCount"],
     unreadTopicCount |-> results["unreadCounts"][""],
     unreadNewTopicCount |-> results["unreadCounts"]["new"],
     unreadWatchedTopicCount |-> results["unreadCounts"]["watched"],
     unreadUnrepliedTopicCount |-> results["unreadCounts"]["unreplied"]]

\* One query answers; after the last answer the handler merges and returns.
UnreadAnswer(c, q) ==
    /\ calls[c].proc = "getUnreadCounts" /\ calls[c].pc = "promiseParallel"
    /\ q \in UnreadQueries
    /\ calls[c].sub[q] = "pending"
    /\ LET sub == [calls[c].sub EXCEPT ![q] = "ok"]
           results == [k \in {k \in UnreadQueries : sub[k] = "ok"} |->
                          QueryAnswer(k, calls[c].socket.uid)]
           f == [calls[c] EXCEPT !.sub = sub, !.results = results]
       IN calls' = [calls EXCEPT ![c] =
             IF \A k \in UnreadQueries : sub[k] = "ok"
             THEN Return(f, MergeCounts(results)) ELSE f]
    /\ UnchangedStores

\* ---------------------------------------------------- setModerationNote
\* Date.now(): a logical clock, one unit per invocation so far.
DateNow == Cardinality({c \in CallIds : ~Idle(c)})

\* Line 208: the check of session and payload.
NoteDataInvalid(s, data) ==
    FalsyNum(s.uid) \/ FalsyData(data) \/ FalsyNum(data.uid) \/ FalsyStr(data.note)

\* Lines 207-216: the check, noteData, then privileges.users.canEdit is asked.
SetModerationNote(c, s, data) ==
    /\ CanStart(c)
    /\ LET f == Invoked("setModerationNote", s, data)
       IN calls' = [calls EXCEPT ![c] =
             IF NoteDataInvalid(s, data) THEN Throw(f, InvalidData)
             ELSE Await([f EXCEPT !.noteData = [uid |-> s.uid, note |-> data.note,
                                                 timestamp |-> DateNow]],
                        "canEdit", "privileges.users.canEdit", <<s.uid, data.uid>>)]
    /\ UnchangedStores

\* A variant that asks the moderator query whatever canEdit answered.
AsksModeratorAlways(canEdit) == TRUE

\* A variant without the fallback of lines 217-219.
AsksModeratorNever(canEdit) == FALSE

\* Line 217: whether the moderator query is needed after canEdit answered.
AsksModerator(canEdit) == ~canEdit

\* The request of line 224.
AppendRequest(f) ==
    Await(f, "appendModerationNote", "user.appendModerationNote",
          <<f.data.uid, f.noteData>>)

\* Lines 216-224: canEdit answers; the moderator query is the fallback.
CanEditAnswer(c) ==
    /\ calls[c].pc = "canEdit"
    /\ LET canEdit == CanEdit(calls[c].socket.uid, calls[c].data.uid)
           f == [calls[c] EXCEPT !.flag = canEdit]
       IN calls' = [calls EXCEPT ![c] =
             IF AsksModerator(canEdit)
             THEN Await(f, "isModeratorOfAnyCategory",
                        "user.isModeratorOfAnyCategory", <<f.socket.uid>>)
             ELSE IF ~canEdit THEN Throw(f, NoPrivileges)
             ELSE AppendRequest(f)]
    /\ UnchangedStores

\* Lines 218-224: the moderator query answers.
IsModeratorAnswer(c) ==
    /\ calls[c].pc = "isModeratorOfAnyCategory"
    /\ LET canEdit == IsModeratorOfAnyCategory(calls[c].socket.uid)
           f == [calls[c] EXCEPT !.flag = canEdit]
       IN calls' = [calls EXCEPT ![c] =
             IF ~canEdit THEN Throw(f, NoPrivileges) ELSE AppendRequest(f)]
    /\ UnchangedStores

\* Line 224: user.appendModerationNote({uid: data.uid, noteData}) answers.
AppendModerationNote(c) ==
    /\ calls[c].pc = "appendModerationNote"
    /\ notes' = [notes EXCEPT ![calls[c].data.uid] = Append(@, calls[c].noteData)]
    /\ calls' = [calls EXCEPT ![c] = Return(@, Null)]
    /\ UNCHANGED <<config, resetUid, resetLock, passwords, eventsLog, emails,
                   hooksFired, consent, domain>>

\* ------------------------------------------------------------ gdpr.check
\* Line 240-241: user.isAdministrator(socket.uid) is asked.
GdprCheck(c, s, data) ==
    /\ CanStart(c)
    /\ calls' = [calls EXCEPT ![c] =
          Await(Invoked("gdpr.check", s, data), "isAdministrator",
                "user.isAdministrator", <<s.uid>>)]
    /\ UnchangedStores

\* A variant without the override of lines 242-244.
CheckedUidAsPassed(isAdmin, s, data) == data.uid

\* Lines 242-244: the uid whose flag is read, given isAdmin.
CheckedUid(isAdmin, s, data) == IF ~isAdmin THEN s.uid ELSE data.uid

\* Lines 241-245: isAdministrator answers; a caller who is no administrator
\* gets data.uid overwritten.  Both `data.uid = ...` and `data.uid` throw
\* when data is undefined.
IsAdministratorAnswer(c) ==
    /\ calls[c].pc = "isAdministrator"
    /\ LET isAdmin == IsAdministrator(calls[c].socket.uid)
           f == [calls[c] EXCEPT !.flag = isAdmin]
           target == CheckedUid(isAdmin, f.socket, f.data)
       IN calls' = [calls EXCEPT ![c] =
             IF ~f.data.given THEN Throw(f, TypeError)
             ELSE Await([f EXCEPT !.uid = target],
                        "db.getObjectField", "db.getObjectField",
                        <<"user:", target, "gdpr_consent">>)]
    /\ UnchangedStores

\* Line 245: db.getObjectField('user:' + data.uid, 'gdpr_consent') answers.
GdprCheckAnswer(c) ==
    /\ calls[c].proc = "gdpr.check" /\ calls[c].pc = "db.getObjectField"
    /\ calls' = [calls EXCEPT ![c] =
          Return([calls[c] EXCEPT !.own = consent[calls[c].socket.uid]],
                 consent[calls[c].uid])]
    /\ UnchangedStores

\* ------------------------------------------------------- the gateway
\* The sessions and payloads of the calls.
GateSockets == {Socket(Anonymous), Socket(3)}
NameInputs == {[given |-> FALSE, username |-> Null],
               [given |-> TRUE, username |-> Null],
               [given |-> TRUE, username |-> "admin"]}
EmailDataInputs == {[given |-> FALSE, email |-> Null],
                    [given |-> TRUE, email |-> Null],
                    [given |-> TRUE, email |-> KnownEmail]}
\* {uid}: undefined, {} and {uid: 1}.
UidInputs == {[given |-> FALSE, uid |-> NoUid], [given |-> TRUE, uid |-> NoUid],
              [given |-> TRUE, uid |-> 1]}
DelegateInputs == {[given |-> FALSE, uid |-> NoUid], [given |-> TRUE, uid |-> 1]}
UploadInputs == {[given |-> FALSE, uid |-> NoUid, name |-> Null],
                 [given |-> TRUE, uid |-> NoUid, name |-> "a.png"],
                 [given |-> TRUE, uid |-> 3, name |-> Null],
                 [given |-> TRUE, uid |-> 3, name |-> "a.png"]}
NoteInputs == {[given |-> FALSE, uid |-> NoUid, note |-> Null],
               [given |-> TRUE, uid |-> 3, note |-> Null],
               [given |-> TRUE, uid |-> 1, note |-> "note"],
               [given |-> TRUE, uid |-> 3, note |-> "note"]}
CheckInputs == {[given |-> FALSE, uid |-> NoUid], [given |-> TRUE, uid |-> 2],
                [given |-> TRUE, uid |-> 3]}
SortInputs == {"newest_to_oldest"}

Init ==
    /\ calls = [c \in CallIds |-> IdleCall]
    /\ config \in {[passwordDisableEdit |-> FALSE, requireEmailConfirmation |-> b] :
                     b \in BOOLEAN}
    /\ resetUid = [k \in Codes |-> NoUid]
    /\ InitStores

Next ==
    \/ \E c \in CallIds, data \in NameInputs : Exists(c, Socket(Anonymous), data)
    \/ \E c \in CallIds, s \in GateSockets, data \in UidInputs : DeleteAccount(c, s, data)
    \/ \E c \in CallIds, data \in EmailDataInputs :
          EmailExistsCall(c, Socket(Anonymous), data)
    \/ \E c \in CallIds, s \in GateSockets : EmailConfirm(c, s)
    \/ \E c \in CallIds, s \in GateSockets, data \in UidInputs : IsFollowingCall(c, s, data)
    \/ \E c \in CallIds, s \in GateSockets, name \in DelegateNames, data \in DelegateInputs :
          Delegate(c, s, name, data)
    \/ \E c \in CallIds, s \in GateSockets, name \in SortNames, sort \in SortInputs :
          SetSort(c, s, name, sort)
    \/ \E c \in CallIds, s \in GateSockets, name \in CountNames : GetUnread(c, s, name)
    \/ \E c \in CallIds, s \in GateSockets : GetUnreadCounts(c, s)
    \/ \E c \in CallIds, q \in UnreadQueries : UnreadAnswer(c, q)
    \/ \E c \in CallIds, name \in LookupNames : GetUserBy(c, Socket(3), name, 1)
    \/ \E c \in CallIds, s \in GateSockets, data \in UploadInputs : DeleteUpload(c, s, data)
    \/ \E c \in CallIds, s \in GateSockets : GdprConsent(c, s)

\* The procedures that delegate to one service, and the unread aggregator.
Spec == Init /\ [][Next]_vars

\* The two authorization gates, each with the calls that share its state.
InitGate ==
    /\ calls = [c \in CallIds |-> IdleCall]
    /\ config = [passwordDisableEdit |-> FALSE, requireEmailConfirmation |-> TRUE]
    /\ resetUid = [k \in Codes |-> NoUid]
    /\ InitStores

NextNote ==
    \/ \E c \in CallIds, s \in Sockets, data \in NoteInputs : SetModerationNote(c, s, data)
    \/ \E c \in CallIds : CanEditAnswer(c)
    \/ \E c \in CallIds : IsModeratorAnswer(c)
    \/ \E c \in CallIds : AppendModerationNote(c)

SpecNote == InitGate /\ [][NextNote]_vars

NextGdpr ==
    \/ \E c \in CallIds, s \in Sockets : GdprConsent(c, s)
    \/ \E c \in CallIds, s \in Sockets, data \in CheckInputs : GdprCheck(c, s, data)
    \/ \E c \in CallIds : IsAdministratorAnswer(c)
    \/ \E c \in CallIds : GdprCheckAnswer(c)

SpecGdpr == InitGate /\ [][NextGdpr]_vars

\* ================================================================ claims
Commits == {c \in CallIds : calls[c].proc = "reset.commit"}
Sends == {c \in CallIds : calls[c].proc = "reset.send"}
\* The names of the services call c has asked, in order.
ExtNames(c) == [i \in 1 .. Len(ExtCalls(c)) |-> ExtCalls(c)[i].name]
\* The reset.send call got as far as asking the reset service.
ReachedService(c) == ExtCalls(c) /= <<>>
\* How often a value occurs in a sequence.
Occurrences(seq, v) == Cardinality({i \in 1 .. Len(seq) : seq[i] = v})

\* The procedures the interface table lists with an authenticated session.
AuthRequired ==
    {"deleteAccount", "emailConfirm", "follow", "unfollow", "saveSettings",
     "setTopicSort", "setCategorySort", "setModerationNote", "deleteUpload",
     "gdpr.consent", "gdpr.check"}
Aggregates == {"getUnreadCount", "getUnreadChatCount", "getUnreadCounts"}

\* C1: a call of an authenticated-session procedure on a guest session
\* (uid 0) fails with no-privileges, a guest's aggregate query returns 0
\* (or {}), and neither asks any external service.
C1_GuestIsRefused ==
    \A c \in CallIds :
        calls[c].socket.uid = Anonymous =>
            /\ calls[c].proc \in AuthRequired =>
                  /\ ExtCalls(c) = <<>>
                  /\ Done(c) => Failed(c) /\ calls[c].error = NoPrivileges
            /\ calls[c].proc \in Aggregates =>
                  /\ ExtCalls(c) = <<>>
                  /\ Done(c) =>
                        /\ Ok(c)
                        /\ IF calls[c].proc = "getUnreadCounts"
                           THEN calls[c].value = <<>> ELSE calls[c].value = 0

\* C2: per code at most one reset.commit returns normally; a reset.commit
\* invoked after one with the same code returned never succeeds, and it
\* writes no audit entry, sends no email and changes no password.
C2_CodeCommitsOnce ==
    /\ \A k \in Codes :
          Cardinality({c \in Commits : Ok(c) /\ calls[c].data.code = k}) <= 1
    /\ \A c \in Commits :
          calls[c].late =>
              /\ ~Ok(c)
              /\ calls[c].sub.commit /= "ok"
              /\ calls[c].sub.commit = "failed" => Failed(c)
              /\ eventsLog[c] = <<>>
              /\ emails[c] = <<>>
              /\ calls[c].committed = NoUid

\* A second reset.commit of a code was made after the first returned, and
\* has been refused.
C2_Witness ==
    \E c \in Commits : calls[c].late /\ Failed(c)
                       /\ calls[c].error = ResetCodeNotValid

\* C3: in a reset.commit whose lookup and commit both succeeded, the uid
\* the lookup returned is the uid whose password was changed, so the audit
\* entry and the email name that user.
C3_LookupIsCommittedUid ==
    \A c \in Commits :
        /\ (calls[c].sub.lookup = "ok" /\ calls[c].sub.commit = "ok") =>
              calls[c].uid = calls[c].committed
        /\ \A i \in 1 .. Len(eventsLog[c]) : eventsLog[c][i].uid = calls[c].committed
        /\ \A i \in 1 .. Len(emails[c]) : emails[c][i].uid = calls[c].committed

\* C4: a reset.send that reached the reset service returns no sooner than
\* the cooldown after its invocation, whatever the service answered.
C4_ReturnsAfterCooldown ==
    \A c \in Sends :
        (Done(c) /\ ReachedService(c)) => calls[c].elapsed >= SleepMs

\* C5: when the reset service fails, the reason is in the audit log before
\* the call settles; the call returns normally exactly for invalid-email
\* and reset-rate-limited, and throws the same error otherwise.
C5_FailureLoggedThenSwallowedOrThrown ==
    \A c \in Sends :
        calls[c].err /= Null =>
            IF Done(c)
            THEN /\ Len(eventsLog[c]) = 1
                 /\ eventsLog[c][1].text = calls[c].err
                 /\ Ok(c) <=> calls[c].err \in {InvalidEmail, RateLimited}
                 /\ Failed(c) => calls[c].error = calls[c].err
            ELSE calls[c].status = "pending" /\ eventsLog[c] = <<>>

\* One failure was swallowed and another thrown to the caller.
C5_Witness ==
    /\ \E c \in Sends : Ok(c) /\ calls[c].err = InvalidEmail
    /\ \E c \in Sends : Failed(c) /\ calls[c].err = ServiceError
                        /\ calls[c].error = ServiceError

C7_RateLimitedIsSwallowedAndLogged ==
    \A c \in Sends :
        (Done(c) /\ ReachedService(c)) =>
            /\ Len(eventsLog[c]) = 1
            /\ calls[c].err = RateLimited => Ok(c)

\* A reset.send for the known address issued a code and returned, and a
\* second one for the same address was rate-limited and returned.
C7_Witness ==
    \E c, d \in Sends :
        /\ c /= d /\ calls[c].data = KnownEmail /\ calls[d].data = KnownEmail
        /\ Ok(c) /\ calls[c].err = Null /\ eventsLog[c][1].text = SuccessText
        /\ Ok(d) /\ calls[d].err = RateLimited

\* C8: a reset.commit that returned normally wrote one audit entry, with
\* the uid the lookup returned and the caller's ip, and handed one
\* reset_notify email for that uid with its username to the emailer, the
\* audit entry first.
C8_OneAuditEntryThenOneEmail ==
    \A c \in Commits :
        Ok(c) =>
            /\ Len(eventsLog[c]) = 1
            /\ eventsLog[c][1].uid = calls[c].uid
            /\ eventsLog[c][1].ip = calls[c].socket.ip
            /\ Len(emails[c]) = 1
            /\ emails[c][1].template = "reset_notify"
            /\ emails[c][1].uid = calls[c].uid
            /\ emails[c][1].username =
                  (IF calls[c].uid \in Users THEN UsernameOf(calls[c].uid) ELSE Null)
            /\ Occurrences(ExtNames(c), "events.log") = 1
            /\ Occurrences(ExtNames(c), "emailer.send") = 1
            /\ \A i, j \in 1 .. Len(ExtNames(c)) :
                  (ExtNames(c)[i] = "events.log" /\ ExtNames(c)[j] = "emailer.send")
                      => i < j

\* A reset.commit returned normally for a code that resolved to a user.
C8_Witness ==
    \E c \in Commits : Ok(c) /\ calls[c].uid \in Users
                       /\ calls[c].committed = calls[c].uid

Checks == {c \in CallIds : calls[c].proc = "gdpr.check"}

\* C9: gdpr.check by a caller who is no administrator returns the caller's
\* own consent flag as it stands when read, whatever uid the payload
\* names and whatever the flags of the other users are.
C9_CheckReturnsOwnFlag ==
    \A c \in Checks :
        (calls[c].socket.uid \notin Administrators /\ Ok(c)) =>
            /\ calls[c].value = calls[c].own
            /\ calls[c].uid = calls[c].socket.uid

\* A member asked for the flag of uid 2, which is set, and got its own,
\* which is not.
C9_Witness ==
    \E c \in Checks :
        /\ Ok(c) /\ calls[c].socket.uid = 3 /\ calls[c].data.uid = 2
        /\ consent[2] = 1 /\ calls[c].value = NoUid

Notes == {c \in CallIds : /\ calls[c].proc = "setModerationNote"
                          /\ ~NoteDataInvalid(calls[c].socket, calls[c].data)}
\* The notes of the target of call c that call c appended.
AppendedBy(c) == Occurrences(notes[calls[c].data.uid], calls[c].noteData)

\* C10: of the setModerationNote calls by a logged-in caller with a full
\* payload: one whose caller can neither edit the target nor moderates a
\* category fails with no-privileges and appends nothing; one whose caller
\* moderates a category without edit privilege succeeds and appends exactly
\* one note, authored by the caller; every note is by an authorized author.
C10_NoteOnlyByAuthorized ==
    /\ \A c \in Notes :
          LET u == calls[c].socket.uid
              t == calls[c].data.uid
          IN /\ (u \notin Moderators /\ u \notin Administrators /\ u /= t) =>
                   /\ ~Ok(c)
                   /\ Done(c) => calls[c].error = NoPrivileges
                   /\ AppendedBy(c) = 0
             /\ (u \in Moderators /\ u \notin Administrators /\ u /= t) =>
                   /\ ~Failed(c)
                   /\ Done(c) => AppendedBy(c) = 1 /\ calls[c].noteData.uid = u
                   /\ ~Done(c) => AppendedBy(c) = 0
    /\ \A t \in Users : \A i \in 1 .. Len(notes[t]) :
          LET a == notes[t][i].uid
          IN a \in Moderators \/ a \in Administrators \/ a = t

\* A moderator without edit privilege over uid 3 left it a note, and a
\* member was refused one on uid 1.
C10_Witness ==
    /\ \E c \in Notes : /\ calls[c].socket.uid = 2 /\ calls[c].data.uid = 3
                        /\ Ok(c) /\ AppendedBy(c) = 1
    /\ \E c \in Notes : /\ calls[c].socket.uid = 3 /\ calls[c].data.uid = 1
                        /\ Failed(c) /\ calls[c].error = NoPrivileges

\* The procedures of Spec that declare a payload object, and whether the
\* payload of call c, or a field the interface table requires of it, is missing.
PayloadProcs ==
    {"exists", "emailExists", "isFollowing", "deleteUpload", "deleteAccount",
     "follow", "unfollow", "saveSettings"}
PayloadMissing(c) ==
    LET d == calls[c].data
        p == calls[c].proc
    IN CASE p = "exists" -> ~d.given \/ FalsyStr(d.username)
         [] p = "emailExists" -> ~d.given \/ FalsyStr(d.email)
         [] p = "isFollowing" -> ~d.given \/ FalsyNum(d.uid)
         [] p = "deleteUpload" -> ~d.given \/ FalsyStr(d.name) \/ FalsyNum(d.uid)
         [] p = "deleteAccount" -> ~d.given
         [] p \in {"follow", "unfollow"} -> ~d.given \/ FalsyNum(d.uid)
         [] p = "saveSettings" -> ~d.given
         [] OTHER -> FALSE

\* C11: a call of a procedure with a declared payload whose payload, or a
\* required field of it, is missing fails with invalid-data, and has asked
\* no external service (so nothing was changed through one).
C11_MissingPayloadIsInvalidData ==
    \A c \in CallIds :
        (calls[c].proc \in PayloadProcs /\ PayloadMissing(c)) =>
            /\ ExtCalls(c) = <<>>
            /\ Done(c) => Failed(c) /\ calls[c].error = InvalidData

Bundles == {c \in CallIds : calls[c].proc = "getUnreadCounts"}

\* C12: getUnreadCounts of a guest returns {} and asks nothing; of a
\* logged-in caller it returns only when its three queries have answered,
\* and the four topic counts of the bundle are the unfiltered, new, watched
\* and unreplied counts topics.getUnreadTids gave for the caller's uid.
C12_BundleMatchesTopicCounts ==
    \A c \in Bundles :
        LET u == calls[c].socket.uid IN
        IF u = Anonymous
        THEN Ok(c) /\ calls[c].value = <<>> /\ ExtCalls(c) = <<>>
        ELSE /\ ~Failed(c)
             /\ Len(ExtCalls(c)) = 3
             /\ Ok(c) <=> \A q \in UnreadQueries : calls[c].sub[q] = "ok"
             /\ Ok(c) =>
                   /\ calls[c].value.unreadTopicCount = UnreadTids(u)[""]
                   /\ calls[c].value.unreadNewTopicCount = UnreadTids(u)["new"]
                   /\ calls[c].value.unreadWatchedTopicCount = UnreadTids(u)["watched"]
                   /\ calls[c].value.unreadUnrepliedTopicCount =
                         UnreadTids(u)["unreplied"]
                   /\ calls[c].value.unreadCounts = UnreadTids(u)

\* A member got its bundle (10 unread topics) and a guest got {}.
C12_Witness ==
    /\ \E c \in Bundles : /\ calls[c].socket.uid = 3 /\ Ok(c)
                          /\ calls[c].value.unreadTopicCount = 10
    /\ \E c \in Bundles : calls[c].socket.uid = Anonymous /\ Ok(c)

\* C13: once reset.commit has handed the email to emailer.send the call has
\* returned normally, whatever becomes of the send (pending, delivered or
\* failed); its audit entry stays written and the password it set stays.
C13_EmailFailureLeavesCommit ==
    \A c \in Commits :
        emails[c] /= <<>> =>
            /\ Ok(c)
            /\ Len(eventsLog[c]) = 1
            /\ calls[c].sub.commit = "ok"
            /\ passwords[calls[c].committed] = calls[c].data.password

\* The send of a returned reset.commit failed.
C13_Witness ==
    \E c \in Commits : /\ emails[c] /= <<>> /\ emails[c][1].state = "failed"
                       /\ Ok(c) /\ passwords[2] = NewPassword

\* The procedures with a deprecation shim, and the REST equivalent each names.
Legacy ==
    {"exists", "deleteAccount", "follow", "unfollow", "saveSettings",
     "setTopicSort", "setCategorySort"}
LegacyHint(name) ==
    CASE name = "exists" ->
            "HEAD /api/v3/users/bySlug/:userslug *AND* HEAD /api/v3/groups/:slug"
      [] name = "deleteAccount" -> "DELETE /api/v3/users/:uid/account"
      [] name \in DelegateNames -> DelegateHint(name)
      [] OTHER -> SortHint(name)
\* The one service a legacy procedure asks.
LegacyService(name) ==
    CASE name = "exists" -> "meta.userOrGroupExists"
      [] name = "deleteAccount" -> "api.users.deleteAccount"
      [] name \in DelegateNames -> DelegateService(name)
      [] OTHER -> "api.users.updateSetting"
\* The call fails in the gateway itself, before its service is asked.
FailsBeforeService(c) ==
    \/ calls[c].proc = "exists" /\ PayloadMissing(c)
    \/ calls[c].proc = "deleteAccount" /\ PayloadMissing(c)

\* C14: a call of a legacy procedure has emitted exactly one deprecation
\* warning, naming its REST equivalent, as the first thing it did (before
\* its validation failed or its service was asked); the warning leaves the
\* outcome to the body: the call has settled, a call that fails validation
\* fails with the body's error and asks nothing, and any other call asks
\* exactly its one service and returns that service's answer.
C14_OneWarningFirst ==
    \A c \in CallIds :
        calls[c].proc \in Legacy =>
            /\ Len(Warnings(c)) = 1
            /\ calls[c].trace[1] = Warn(LegacyHint(calls[c].proc))
            /\ Done(c)
            /\ IF FailsBeforeService(c)
               THEN /\ Failed(c) /\ ExtCalls(c) = <<>>
                    /\ calls[c].error =
                          (IF calls[c].proc = "exists" THEN InvalidData ELSE TypeError)
               ELSE /\ ExtNames(c) = <<LegacyService(calls[c].proc)>>
                    /\ Failed(c) => calls[c].error \in {NoPrivileges, InvalidData}
                    /\ (calls[c].proc = "exists" /\ Ok(c)) =>
                          calls[c].value = UserOrGroupExists(calls[c].data.username)
                    /\ calls[c].proc = "exists" => Ok(c)

\* One legacy call failed its validation after warning, another reached
\* its service after warning.
C14_Witness ==
    /\ \E c \in CallIds : /\ calls[c].proc = "exists" /\ Failed(c)
                          /\ Len(calls[c].trace) = 1
    /\ \E c \in CallIds : /\ calls[c].proc \in SortNames /\ Ok(c)
                          /\ Len(calls[c].trace) = 2

\* The audit entry of call c is written and its email handed to the emailer.
AuditedAndNotified(c) == eventsLog[c] /= <<>> /\ emails[c] /= <<>>
\* The connection of call c dropped while the call was in flight.
Dropped(c) == calls[c].droppedAt /= "up"

SubFailures(c) ==
    (IF calls[c].sub.lookup = "failed" THEN {ServiceError} ELSE {}) \cup
    (IF calls[c].sub.commit = "failed" THEN {ResetCodeNotValid} ELSE {}) \cup
    (IF calls[c].sub.hook = "failed" THEN {ServiceError} ELSE {})

\* C16: a reset.commit has an audit entry or an email only when its lookup,
\* its commit and its hook notification have all succeeded; when one of the
\* three has failed the call has failed with a failed sub-action's error and
\* has neither audit entry nor email.
C16_JoinBeforeAuditAndEmail ==
    \A c \in Commits :
        /\ (eventsLog[c] /= <<>> \/ emails[c] /= <<>>) => AllSettledOk(calls[c].sub)
        /\ calls[c].pc \in {"events.log", "user.getUserField"} =>
              AllSettledOk(calls[c].sub)
        /\ SubFailures(c) /= {} =>
              /\ Failed(c) /\ calls[c].error \in SubFailures(c)
              /\ eventsLog[c] = <<>> /\ emails[c] = <<>>

\* One call joined its three sub-actions and wrote its audit entry; another
\* had a sub-action fail, failed with it and left no audit entry.
C16_Witness ==
    /\ \E c \in Commits : AllSettledOk(calls[c].sub) /\ eventsLog[c] /= <<>>
    /\ \E c \in Commits : /\ SubFailures(c) /= {} /\ Failed(c)
                          /\ eventsLog[c] = <<>> /\ emails[c] = <<>>

\* C17: the hook action:password.reset has been notified by a reset.commit
\* only if the call's commit sub-action has not been refused: no call
\* whose code was invalid or already used has notified the hook.
C17_HookOnlyForChangedPassword ==
    \A c \in Commits :
        hooksFired[c] /= <<>> =>
            /\ calls[c].sub.commit /= "failed"
            /\ ~calls[c].late

\* C18: a reset.send made while password editing is disabled, or without an
\* email, has failed at once (with invalid-data when the email is absent,
\* else with no-privileges) and has asked no service, written no audit
\* entry and slept no cooldown.
C18_RejectedSendDoesNothing ==
    \A c \in Sends :
        (config.passwordDisableEdit \/ EmailMissing(calls[c].data)) =>
            /\ Failed(c)
            /\ calls[c].error =
                  (IF EmailMissing(calls[c].data) THEN InvalidData ELSE NoPrivileges)
            /\ ExtCalls(c) = <<>>
            /\ eventsLog[c] = <<>>
            /\ calls[c].wakeAt = 0 /\ calls[c].elapsed = 0

\* With password editing disabled, a send for the registered address was
\* refused and a send without an address was found invalid.
C18_Witness ==
    /\ config.passwordDisableEdit
    /\ \E c \in Sends : /\ calls[c].data = KnownEmail /\ Failed(c)
                        /\ calls[c].error = NoPrivileges
    /\ \E c \in Sends : /\ calls[c].data = Null /\ Failed(c)
                        /\ calls[c].error = InvalidData

\* C19: a setModerationNote call has asked user.isModeratorOfAnyCategory
\* only as its second request, after privileges.users.canEdit answered
\* false; a call whose caller may edit the target never asks it, never
\* fails, and has appended its note once it has returned.
C19_ModeratorQueryIsFallback ==
    \A c \in Notes :
        LET names == ExtNames(c)
            allowed == CanEdit(calls[c].socket.uid, calls[c].data.uid)
            asked == \E i \in 1 .. Len(names) : names[i] = "user.isModeratorOfAnyCategory"
        IN /\ names[1] = "privileges.users.canEdit"
           /\ calls[c].pc = "canEdit" => Len(names) = 1
           /\ asked => /\ ~allowed
                       /\ names[2] = "user.isModeratorOfAnyCategory"
                       /\ Occurrences(names, "user.isModeratorOfAnyCategory") = 1
           /\ allowed =>
                 /\ ~asked /\ ~Failed(c)
                 /\ Done(c) => /\ AppendedBy(c) = 1
                               /\ names = <<"privileges.users.canEdit",
                                            "user.appendModerationNote">>

\* An administrator's note was appended after the one lookup, and a
\* moderator's after the lookup and then the moderator query.
C19_Witness ==
    /\ \E c \in Notes : /\ calls[c].socket.uid = 1 /\ Ok(c) /\ Len(ExtCalls(c)) = 2
    /\ \E c \in Notes : /\ calls[c].socket.uid = 2 /\ Ok(c)
                        /\ ExtNames(c) = <<"privileges.users.canEdit",
                                           "user.isModeratorOfAnyCategory",
                                           "user.appendModerationNote">>

\* The procedures that act on the caller's own account, and the uid a
\* request of theirs names as its target.
OwnAccountProcs == {"deleteAccount", "setTopicSort", "setCategorySort", "gdpr.consent"}
TargetUid(e) ==
    CASE e.name = "api.users.deleteAccount" -> e.args[2]
      [] e.name = "api.users.updateSetting" -> e.args[2]
      [] OTHER -> e.args[1]

\* C20: every request deleteAccount, setTopicSort, setCategorySort and
\* gdpr.consent make of a service names the session's uid as its target,
\* whatever uid the payload carries; an account is deleted, and a consent
\* flag set, only for the uid of a session that asked for it.
C20_ActsOnSessionUid ==
    /\ \A c \in CallIds :
          calls[c].proc \in OwnAccountProcs =>
              \A i \in 1 .. Len(ExtCalls(c)) :
                  TargetUid(ExtCalls(c)[i]) = calls[c].socket.uid
    /\ \A e \in domain :
          e[1] = "deleteAccount" =>
              \E c \in CallIds : /\ calls[c].proc = "deleteAccount"
                                 /\ calls[c].socket.uid = e[2][1]
    /\ \A u \in (Users \cup {Anonymous}) \ {2} :
          consent[u] = 1 =>
              \E c \in CallIds : /\ calls[c].proc = "gdpr.consent"
                                 /\ calls[c].socket.uid = u

\* A member's deleteAccount carrying the uid of another user deleted the
\* member's own account.
C20_Witness ==
    \E c \in CallIds :
        /\ calls[c].proc = "deleteAccount" /\ Ok(c)
        /\ calls[c].socket.uid = 3 /\ calls[c].data.uid = 1
        /\ <<"deleteAccount", <<3>>>> \in domain
        /\ ExtCalls(c)[1].args = <<3, 3>>

====
